---- MODULE Spec2Model ----
(***************************************************************************)
(* A model of bedrock_chat.py: the BedrockChat session object              *)
(* (conversation_history, current_role), the chat_history.json file it     *)
(* saves to and loads from, and the command loop of main().                *)
(*                                                                         *)
(* A Python str is a sequence of pieces of text, one character each for   *)
(* everything typed or compared with it, so that strip(), lower(),         *)
(* startswith() and split() are computed and not assumed.  A               *)
(* Python dict is the sequence of its <<key, value>> pairs in insertion    *)
(* order (the order json.dump writes and json.load rebuilds).              *)
(***************************************************************************)
EXTENDS Integers, Sequences, FiniteSets, TLC

(***************************************************************************)
(* Bounds                                                                  *)
(***************************************************************************)
\* The wall clock is read once per appended turn; MaxClock caps the turns
\* appended over the whole run (all sessions together).
MaxClock == 4

(***************************************************************************)
(* Python str operations                                                   *)
(***************************************************************************)
UpperCase == <<"A","B","C","D","E","F","G","H","I","J","K","L","M",
               "N","O","P","Q","R","S","T","U","V","W","X","Y","Z">>
LowerCase == <<"a","b","c","d","e","f","g","h","i","j","k","l","m",
               "n","o","p","q","r","s","t","u","v","w","x","y","z">>

IsSpace(c) == c \in {" ", "\t"}

LowerChar(c) ==
    IF \E i \in 1..Len(UpperCase) : UpperCase[i] = c
    THEN LowerCase[CHOOSE i \in 1..Len(UpperCase) : UpperCase[i] = c]
    ELSE c

\* str.lower()
Lower(s) == [i \in 1..Len(s) |-> LowerChar(s[i])]

RECURSIVE LStrip(_)
LStrip(s) == IF s # <<>> /\ IsSpace(Head(s)) THEN LStrip(Tail(s)) ELSE s

RECURSIVE RStrip(_)
RStrip(s) ==
    IF s # <<>> /\ IsSpace(s[Len(s)]) THEN RStrip(SubSeq(s, 1, Len(s) - 1)) ELSE s

\* str.strip()
Strip(s) == RStrip(LStrip(s))

\* str.startswith(p)
StartsWith(s, p) == Len(s) >= Len(p) /\ SubSeq(s, 1, Len(p)) = p

\* The first whitespace-delimited word of s and what follows it.
RECURSIVE WordEnd(_, _)
WordEnd(s, i) == IF i <= Len(s) /\ ~IsSpace(s[i]) THEN WordEnd(s, i + 1) ELSE i

\* str.split(): the whitespace-delimited words of s
RECURSIVE Split(_)
Split(s) ==
    LET t == LStrip(s) IN
    IF t = <<>> THEN <<>>
    ELSE LET e == WordEnd(t, 1) IN
         <<SubSeq(t, 1, e - 1)>> \o Split(SubSeq(t, e, Len(t)))

\* bool(s) for a str
Truthy(s) == s # <<>>

(***************************************************************************)
(* String literals of the program                                          *)
(***************************************************************************)
W_help  == <<"h","e","l","p">>
W_help_ == <<"h","e","l","p"," ">>
W_quit  == <<"q","u","i","t">>
W_clear == <<"c","l","e","a","r">>
W_save  == <<"s","a","v","e">>
W_load  == <<"l","o","a","d">>
W_role  == <<"r","o","l","e">>

\* Literals that never meet typed text are written as one piece.
K_role      == <<"role">>
K_content   == <<"content">>
K_timestamp == <<"timestamp">>

USER      == <<"user">>
ASSISTANT == <<"assistant">>

R_default          == <<"d","e","f","a","u","l","t">>
R_translator       == <<"t","r","a","n","s","l","a","t","o","r">>
R_programmer       == <<"p","r","o","g","r","a","m","m","e","r">>
R_teacher          == <<"t","e","a","c","h","e","r">>
R_business_analyst == <<"b","u","s","i","n","e","s","s","_",
                        "a","n","a","l","y","s","t">>
R_aws_sa           == <<"a","w","s","_","s","a">>

\* COMMAND_HELP: the commands show_help knows
COMMAND_HELP == {W_help, W_quit, W_clear, W_save, W_load, W_role}

\* ROLE_PROMPTS: role name -> system prompt (each prompt text is one atom)
ROLE_PROMPTS ==
    (R_default :> "prompt:default") @@
    (R_translator :> "prompt:translator") @@
    (R_programmer :> "prompt:programmer") @@
    (R_teacher :> "prompt:teacher") @@
    (R_business_analyst :> "prompt:business_analyst") @@
    (R_aws_sa :> "prompt:aws_sa")

(***************************************************************************)
(* dicts                                                                   *)
(***************************************************************************)
HasKey(d, k) == \E i \in 1..Len(d) : d[i][1] = k

\* d[k], for a key that d has
Get(d, k) == d[CHOOSE i \in 1..Len(d) : d[i][1] = k][2]

\* d[k] = v
Put(d, k, v) ==
    IF HasKey(d, k)
    THEN [i \in 1..Len(d) |-> IF d[i][1] = k THEN <<k, v>> ELSE d[i]]
    ELSE Append(d, <<k, v>>)

(***************************************************************************)
(* JSON text: the tokens json.dump writes and json.load reads              *)
(***************************************************************************)
Tok(k)    == [k |-> k, s |-> <<>>]
StrTok(s) == [k |-> "str", s |-> s]

RECURSIVE DumpPairs(_)
DumpPairs(d) ==
    IF d = <<>> THEN <<>>
    ELSE <<StrTok(d[1][1]), Tok(":"), StrTok(d[1][2])>>
         \o (IF Len(d) > 1 THEN <<Tok(",")>> \o DumpPairs(Tail(d)) ELSE <<>>)

\* DumpDict, were the timestamp left out of what is written
DumpDict_no_timestamp(d) ==
    <<Tok("{")>> \o DumpPairs(SelectSeq(d, LAMBDA p : p[1] # K_timestamp))
    \o <<Tok("}")>>

DumpDict(d) == <<Tok("{")>> \o DumpPairs(d) \o <<Tok("}")>>

RECURSIVE DumpItems(_)
DumpItems(l) ==
    IF l = <<>> THEN <<>>
    ELSE DumpDict(l[1])
         \o (IF Len(l) > 1 THEN <<Tok(",")>> \o DumpItems(Tail(l)) ELSE <<>>)

\* json.dump(conversation_history, f): a list of dicts of strs
json_dump(l) == <<Tok("[")>> \o DumpItems(l) \o <<Tok("]")>>

ParseFail == [ok |-> FALSE, pos |-> 0, val |-> <<>>]

Is(t, i, k) == i <= Len(t) /\ t[i].k = k

RECURSIVE ParsePairs(_, _, _)
ParsePairs(t, i, acc) ==
    IF Is(t, i, "str") /\ Is(t, i + 1, ":") /\ Is(t, i + 2, "str")
    THEN LET acc2 == Put(acc, t[i].s, t[i + 2].s) IN
         IF Is(t, i + 3, ",") THEN ParsePairs(t, i + 4, acc2)
         ELSE IF Is(t, i + 3, "}") THEN [ok |-> TRUE, pos |-> i + 4, val |-> acc2]
         ELSE ParseFail
    ELSE ParseFail

ParseObject(t, i) ==
    IF Is(t, i, "{")
    THEN IF Is(t, i + 1, "}") THEN [ok |-> TRUE, pos |-> i + 2, val |-> <<>>]
         ELSE ParsePairs(t, i + 1, <<>>)
    ELSE ParseFail

RECURSIVE ParseItems(_, _, _)
ParseItems(t, i, acc) ==
    LET o == ParseObject(t, i) IN
    IF o.ok
    THEN LET acc2 == Append(acc, o.val) IN
         IF Is(t, o.pos, ",") THEN ParseItems(t, o.pos + 1, acc2)
         ELSE IF Is(t, o.pos, "]") THEN [ok |-> TRUE, pos |-> o.pos + 1, val |-> acc2]
         ELSE ParseFail
    ELSE ParseFail

\* json.load(f) on the texts this program writes, whole or cut short: a list
\* of dicts of strs, or JSONDecodeError (ok = FALSE)
json_load(t) ==
    LET r == IF Is(t, 1, "[")
             THEN IF Is(t, 2, "]") THEN [ok |-> TRUE, pos |-> 3, val |-> <<>>]
                  ELSE ParseItems(t, 2, <<>>)
             ELSE ParseFail
    IN IF r.ok /\ r.pos = Len(t) + 1 THEN r ELSE ParseFail

(***************************************************************************)
(* BedrockChat                                                             *)
(***************************************************************************)
Digits == <<"1","2","3","4","5","6","7","8","9">>

\* datetime.now().isoformat() at clock reading n
isoformat(n) == <<Digits[n]>>

\* BedrockChat.__init__
BedrockChat_init(role_type) ==
    [conversation_history |-> <<>>, current_role |-> role_type]

\* set_role, were the name matched without regard to case
set_role_lower(cur, role_type) ==
    IF Lower(role_type) \in DOMAIN ROLE_PROMPTS
    THEN [current_role |-> Lower(role_type), ret |-> TRUE]
    ELSE [current_role |-> cur, ret |-> FALSE]

\* set_role, were the name not checked
set_role_unchecked(cur, role_type) == [current_role |-> role_type, ret |-> TRUE]

\* BedrockChat.set_role
set_role(cur, role_type) ==
    IF role_type \in DOMAIN ROLE_PROMPTS
    THEN [current_role |-> role_type, ret |-> TRUE]
    ELSE [current_role |-> cur, ret |-> FALSE]

\* add_to_history, were an earlier turn of the same role and text dropped
add_to_history_dedup(h, role, content, now) ==
    Append(SelectSeq(h, LAMBDA t : ~(Get(t, K_role) = role /\ Get(t, K_content) = content)),
           <<<<K_role, role>>, <<K_content, content>>,
             <<K_timestamp, isoformat(now)>>>>)

\* add_to_history, were every turn recorded as a user turn
add_to_history_as_user(h, role, content, now) ==
    Append(h, <<<<K_role, USER>>, <<K_content, content>>,
                <<K_timestamp, isoformat(now)>>>>)

\* add_to_history, were the turn put first
add_to_history_prepend(h, role, content, now) ==
    <<<<<<K_role, role>>, <<K_content, content>>,
        <<K_timestamp, isoformat(now)>>>>>> \o h

\* BedrockChat.add_to_history, the clock reading now
add_to_history(h, role, content, now) ==
    Append(h, <<<<K_role, role>>, <<K_content, content>>,
                <<K_timestamp, isoformat(now)>>>>)

\* Messages, were the turns sent as they are kept
Messages_whole_turn(h) == h

\* the messages list get_response builds from conversation_history
Messages(h) ==
    [i \in 1..Len(h) |->
        <<<<K_role, Get(h[i], K_role)>>, <<K_content, Get(h[i], K_content)>>>>]

\* clear_history, were the history left as it is
clear_history_noop(h) == h

\* BedrockChat.clear_history
clear_history(h) == <<>>

\* Optional[str] values: a str, or None
PyStr(s) == [t |-> "str", v |-> s]
PyNone   == [t |-> "NoneType", v |-> <<>>]

\* bool(x) for an Optional[str]
PyTruthy(x) == x.t = "str" /\ Truthy(x.v)

\* A line printed by the program: which print statement, and the value it shows
Msg(m)      == [msg |-> m, arg |-> <<>>]
MsgOf(m, a) == [msg |-> m, arg |-> a]

NoRequest  == [sent |-> FALSE, messages |-> <<>>, system |-> ""]
NoSetRole  == [called |-> FALSE, arg |-> <<>>, ret |-> FALSE]
NoResponse == [called |-> FALSE, arg |-> <<>>, ret |-> PyNone]

\* What the endpoint does with one invoke_model call: it answers with a text,
\* the call fails, the body is no JSON, the body lacks content[0].text, or
\* the user interrupts the wait.
Replies == { <<"O","k">>, <<>> }
Responses ==
    { [status |-> "ok", text |-> r] : r \in Replies }
    \cup { [status |-> st, text |-> <<>>] :
             st \in {"transport_error", "malformed_body", "missing_field",
                     "interrupt"} }

\* InvokeAndParse, were a missing text read as the empty text
InvokeAndParse_default_text(resp) ==
    CASE resp.status \in {"ok", "missing_field"} -> [raised |-> "", text |-> resp.text]
      [] resp.status = "interrupt" -> [raised |-> "KeyboardInterrupt", text |-> <<>>]
      [] resp.status = "transport_error" -> [raised |-> "ClientError", text |-> <<>>]
      [] OTHER -> [raised |-> "JSONDecodeError", text |-> <<>>]

\* invoke_model, json.loads and ['content'][0]['text']: the exception raised,
\* or the text extracted
InvokeAndParse(resp) ==
    CASE resp.status = "ok" -> [raised |-> "", text |-> resp.text]
      [] resp.status = "interrupt" -> [raised |-> "KeyboardInterrupt", text |-> <<>>]
      [] resp.status = "transport_error" -> [raised |-> "ClientError", text |-> <<>>]
      [] resp.status = "malformed_body" -> [raised |-> "JSONDecodeError", text |-> <<>>]
      [] OTHER -> [raised |-> "KeyError", text |-> <<>>]

\* `except Exception` catches everything but KeyboardInterrupt
IsException(e) == e \notin {"", "KeyboardInterrupt"}

\* get_response, were a call that failed tried once more
get_response_retry(h, cur, clk, text, resp) ==
    LET h1 == add_to_history(h, USER, text, clk + 1)
        buildable ==
            /\ \A i \in 1..Len(h1) : HasKey(h1[i], K_role) /\ HasKey(h1[i], K_content)
            /\ cur \in DOMAIN ROLE_PROMPTS
        req == IF buildable
               THEN [sent |-> TRUE, messages |-> Messages(h1),
                     system |-> ROLE_PROMPTS[cur]]
               ELSE NoRequest
        r == IF buildable THEN InvokeAndParse(resp)
             ELSE [raised |-> "KeyError", text |-> <<>>]
    IN IF r.raised = ""
       THEN [history |-> add_to_history(h1, ASSISTANT, r.text, clk + 2),
             clock |-> clk + 2, raised |-> "", ret |-> PyStr(r.text),
             printed |-> <<>>, request |-> req, issued |-> 1]
       ELSE IF IsException(r.raised)
       THEN [history |-> h1, clock |-> clk + 1, raised |-> "", ret |-> PyNone,
             printed |-> <<Msg("error")>>, request |-> req,
             issued |-> IF buildable THEN 2 ELSE 0]
       ELSE [history |-> h1, clock |-> clk + 1, raised |-> r.raised,
             ret |-> PyNone, printed |-> <<>>, request |-> req, issued |-> 1]

\* BedrockChat.get_response(user_input) at clock reading clk, the endpoint
\* answering resp: the history and clock afterwards, the exception that
\* escapes, the value returned, what is printed, the request issued and the
\* number of invoke_model calls made (the body has no loop: one, unless
\* building the request raised).
get_response(h, cur, clk, text, resp) ==
    LET h1 == add_to_history(h, USER, text, clk + 1)
        buildable ==
            /\ \A i \in 1..Len(h1) : HasKey(h1[i], K_role) /\ HasKey(h1[i], K_content)
            /\ cur \in DOMAIN ROLE_PROMPTS
        req == IF buildable
               THEN [sent |-> TRUE, messages |-> Messages(h1),
                     system |-> ROLE_PROMPTS[cur]]
               ELSE NoRequest
        r == IF buildable THEN InvokeAndParse(resp)
             ELSE [raised |-> "KeyError", text |-> <<>>]
        issued == IF buildable THEN 1 ELSE 0
    IN IF r.raised = ""
       THEN [history |-> add_to_history(h1, ASSISTANT, r.text, clk + 2),
             clock |-> clk + 2, raised |-> "", ret |-> PyStr(r.text),
             printed |-> <<>>, request |-> req, issued |-> issued]
       ELSE IF IsException(r.raised)
       THEN [history |-> h1, clock |-> clk + 1, raised |-> "", ret |-> PyNone,
             printed |-> <<Msg("error")>>, request |-> req, issued |-> issued]
       ELSE [history |-> h1, clock |-> clk + 1, raised |-> r.raised,
             ret |-> PyNone, printed |-> <<>>, request |-> req, issued |-> issued]

\* The file chat_history.json
NoFile == [exists |-> FALSE, text |-> <<>>]

SaveOutcomes == {"ok", "open_error", "write_error"}

\* BedrockChat.save_conversation: open(filename, 'w') truncates the file, and
\* a write that fails before the buffered text is flushed leaves it empty.
save_conversation(h, f, io) ==
    CASE io = "ok" ->
            [file |-> [exists |-> TRUE, text |-> json_dump(h)], raised |-> ""]
      [] io = "open_error" -> [file |-> f, raised |-> "OSError"]
      [] OTHER -> [file |-> [exists |-> TRUE, text |-> <<>>], raised |-> "OSError"]

LoadOutcomes == {"ok", "os_error"}

\* load_conversation, were the history emptied when there is no file
load_conversation_reset(h, f, io) ==
    IF ~f.exists
    THEN [history |-> <<>>, raised |-> "", printed |-> <<Msg("not_found")>>]
    ELSE IF io = "os_error"
    THEN [history |-> h, raised |-> "OSError", printed |-> <<>>]
    ELSE LET r == json_load(f.text) IN
         IF r.ok
         THEN [history |-> r.val, raised |-> "", printed |-> <<Msg("loaded")>>]
         ELSE [history |-> h, raised |-> "JSONDecodeError", printed |-> <<>>]

\* BedrockChat.load_conversation
load_conversation(h, f, io) ==
    IF ~f.exists
    THEN [history |-> h, raised |-> "", printed |-> <<Msg("not_found")>>]
    ELSE IF io = "os_error"
    THEN [history |-> h, raised |-> "OSError", printed |-> <<>>]
    ELSE LET r == json_load(f.text) IN
         IF r.ok
         THEN [history |-> r.val, raised |-> "", printed |-> <<Msg("loaded")>>]
         ELSE [history |-> h, raised |-> "JSONDecodeError", printed |-> <<>>]

\* BedrockChat.show_help: what it prints
show_help(command) ==
    IF Truthy(command) /\ command \in COMMAND_HELP
    THEN <<MsgOf("help_one", command)>>
    ELSE <<Msg("help_all")>>

\* BedrockChat.show_current_role: what it prints, and the KeyError of the
\* lookup ROLE_PROMPTS[self.current_role]
show_current_role(cur) ==
    IF cur \in DOMAIN ROLE_PROMPTS
    THEN [raised |-> "",
          printed |-> <<MsgOf("current_role", cur),
                        MsgOf("role_prompt", <<ROLE_PROMPTS[cur]>>)>>]
    ELSE [raised |-> "KeyError", printed |-> <<MsgOf("current_role", cur)>>]

(***************************************************************************)
(* main()                                                                  *)
(***************************************************************************)
\* Dispatch, were the input compared as typed, not lowered
Dispatch_case_sensitive(input) ==
    IF input = W_help THEN "help"
    ELSE IF StartsWith(input, W_help_) THEN "help_command"
    ELSE IF input = W_quit THEN "quit"
    ELSE IF input = W_clear THEN "clear"
    ELSE IF input = W_save THEN "save"
    ELSE IF input = W_load THEN "load"
    ELSE IF input = W_role THEN "role"
    ELSE IF ~Truthy(input) THEN "empty"
    ELSE "chat"

\* the branch of the if/elif chain that user_input takes
Dispatch(input) ==
    LET l == Lower(input) IN
    IF l = W_help THEN "help"
    ELSE IF StartsWith(l, W_help_) THEN "help_command"
    ELSE IF l = W_quit THEN "quit"
    ELSE IF l = W_clear THEN "clear"
    ELSE IF l = W_save THEN "save"
    ELSE IF l = W_load THEN "load"
    ELSE IF l = W_role THEN "role"
    ELSE IF ~Truthy(input) THEN "empty"
    ELSE "chat"

\* main_except, were there no `except Exception` clause
main_except_no_catch_all(e) ==
    CASE e = "" -> [exits |-> FALSE, printed |-> <<>>]
      [] e = "KeyboardInterrupt" -> [exits |-> TRUE, printed |-> <<Msg("aborted")>>]
      [] OTHER -> [exits |-> TRUE, printed |-> <<Msg("traceback")>>]

\* the except clauses of the loop, for the exception e the body raised
\* ("" when it raised none): whether the loop ends, and what is printed
main_except(e) ==
    CASE e = "" -> [exits |-> FALSE, printed |-> <<>>]
      [] e = "KeyboardInterrupt" -> [exits |-> TRUE, printed |-> <<Msg("aborted")>>]
      [] OTHER -> [exits |-> FALSE, printed |-> <<Msg("exception")>>]

\* What main() prints for the value get_response returned
PrintResponse(ret) ==
    IF PyTruthy(ret) THEN <<MsgOf("reply", ret.v)>> ELSE <<Msg("sorry")>>

\* The `role` branch: the roles are listed, then a second input() asks for
\* the new role
RoleBranch(cur, inp) ==
    LET shown    == show_current_role(cur)
        listed   == <<Msg("role_list")>> \o shown.printed
        new_role == Strip(inp.text)
        r        == set_role(cur, new_role)
        same     == [current_role |-> cur, call |-> NoSetRole, raised |-> "",
                     printed |-> listed]
    IN CASE shown.raised # "" -> [same EXCEPT !.raised = shown.raised]
         [] inp.ev = "interrupt" -> [same EXCEPT !.raised = "KeyboardInterrupt"]
         [] inp.ev = "eof" -> [same EXCEPT !.raised = "EOFError"]
         [] Truthy(new_role) ->
              [current_role |-> r.current_role,
               call |-> [called |-> TRUE, arg |-> new_role, ret |-> r.ret],
               raised |-> "",
               printed |-> listed \o (IF r.ret THEN <<MsgOf("switched", new_role)>>
                                      ELSE <<Msg("invalid_role")>>)]
         [] OTHER -> same

(***************************************************************************)
(* Inputs                                                                  *)
(***************************************************************************)
\* Lines typed at the main prompt, as input() returns them
Lines ==
    { <<" ","H","E","L","P"," ">>,
      <<"H","e","l","p"," "," ","R","o","l","e"," ">>,
      <<"Q","u","i","t"," ">>,
      <<"c","l","e","a","r">>,
      <<"s","a","v","e">>,
      <<"L","o","a","d">>,
      <<"r","o","l","e">>,
      <<" ","\t">>,
      <<" ","R","o","l","e"," ","t"," ">> }

\* Lines typed at the role prompt
RoleLines ==
    { <<" ","t","r","a","n","s","l","a","t","o","r"," ">>,
      R_default,
      <<"T","r","a","n","s","l","a","t","o","r">>,
      <<>> }

\* What the input() of the role prompt can do: return a line, raise EOFError
\* at the end of input, raise KeyboardInterrupt
RoleInputs ==
    { [ev |-> "line", text |-> l] : l \in RoleLines }
    \cup { [ev |-> "eof", text |-> <<>>], [ev |-> "interrupt", text |-> <<>>] }

\* user_input = input().strip(), and the branch it takes, line by line
Stripped == [line \in Lines |-> Strip(line)]
Branch   == [line \in Lines |-> Dispatch(Strip(line))]

(***************************************************************************)
(* State                                                                   *)
(***************************************************************************)
VARIABLES
    conversation_history,   \* chat.conversation_history
    current_role,           \* chat.current_role
    chat_file,              \* the file chat_history.json
    clock,                  \* the wall clock: readings taken so far
    running,                \* main()'s loop has not ended
    \* the last iteration of the loop:
    branch,                 \* how it went through the loop body
    typed,                  \* the line input() returned at the main prompt
    user_input,             \* main()'s user_input
    exception,              \* the exception that reached main()'s handlers
    set_role_call,          \* its call of chat.set_role, if any
    response,               \* its call of chat.get_response, if any
    request,                \* the invoke_model request it issued, if any
    out,                    \* what it printed
    \* history variables:
    tracked,                \* the history was empty at the start of the
                            \* session or by clear, and no load and no
                            \* interrupt came since
    calls,                  \* while tracked: the get_response calls since
    saved,                  \* the history written by the last save
    switched,               \* the role last asked for and registered
    invoked,                \* invoke_model calls the last iteration made
    surplus                 \* this session's invoke_model calls less its
                            \* get_response calls

vars == <<conversation_history, current_role, chat_file, clock, running,
          branch, typed, user_input, exception, set_role_call, response, request, out,
          tracked, calls, saved, switched, invoked, surplus>>

\* main() up to its loop: chat = BedrockChat()
Init ==
    LET chat == BedrockChat_init(R_default) IN
    /\ conversation_history = chat.conversation_history
    /\ current_role = chat.current_role
    /\ chat_file = NoFile
    /\ clock = 0
    /\ running = TRUE
    /\ branch = "start"
    /\ typed = <<>>
    /\ user_input = <<>>
    /\ exception = ""
    /\ set_role_call = NoSetRole
    /\ response = NoResponse
    /\ request = NoRequest
    /\ out = <<Msg("welcome")>>
    /\ tracked = TRUE
    /\ calls = <<>>
    /\ saved = [valid |-> FALSE, hist |-> <<>>]
    /\ switched = R_default
    /\ invoked = 0
    /\ surplus = 0

\* What one iteration leaves of itself: its branch, its input, the exception
\* e its body raised and what the body printed before the handlers ran
Iteration(b, line, u, e, printed) ==
    /\ branch' = b
    /\ typed' = line
    /\ user_input' = u
    /\ exception' = e
    /\ out' = printed \o main_except(e).printed
    /\ running' = ~main_except(e).exits

Session == <<conversation_history, current_role>>
NoCalls ==
    /\ set_role_call' = NoSetRole
    /\ response' = NoResponse
    /\ request' = NoRequest
    /\ invoked' = 0
    /\ UNCHANGED surplus

(***************************************************************************)
(* One action per way through the loop body                                *)
(***************************************************************************)
\* input() raises EOFError at the end of input
ReadEOF ==
    /\ running
    /\ Iteration("eof", <<>>, user_input, "EOFError", <<>>)
    /\ NoCalls
    /\ UNCHANGED <<Session, chat_file, clock, tracked, calls, saved, switched>>

\* KeyboardInterrupt while input() waits
ReadInterrupt ==
    /\ running
    /\ Iteration("interrupt", <<>>, user_input, "KeyboardInterrupt", <<>>)
    /\ NoCalls
    /\ UNCHANGED <<Session, chat_file, clock, tracked, calls, saved, switched>>

Help ==
    /\ running
    /\ \E line \in Lines :
         /\ Branch[line] = "help"
         /\ Iteration("help", line, Stripped[line], "", show_help(<<>>))
    /\ NoCalls
    /\ UNCHANGED <<Session, chat_file, clock, tracked, calls, saved, switched>>

HelpCommand ==
    /\ running
    /\ \E line \in Lines :
         LET u == Stripped[line] IN
         /\ Branch[line] = "help_command"
         /\ Iteration("help_command", line, u, "", show_help(Split(Lower(u))[2]))
    /\ NoCalls
    /\ UNCHANGED <<Session, chat_file, clock, tracked, calls, saved, switched>>

\* Quit, were the conversation saved on the way out
Quit_autosave ==
    /\ running
    /\ \E line \in Lines :
         /\ Branch[line] = "quit"
         /\ branch' = "quit"
         /\ typed' = line
         /\ user_input' = Stripped[line]
    /\ exception' = ""
    /\ out' = <<Msg("bye")>>
    /\ running' = FALSE
    /\ chat_file' = save_conversation(conversation_history, chat_file, "ok").file
    /\ saved' = [valid |-> TRUE, hist |-> conversation_history]
    /\ NoCalls
    /\ UNCHANGED <<Session, clock, tracked, calls, switched>>

Quit ==
    /\ running
    /\ \E line \in Lines :
         /\ Branch[line] = "quit"
         /\ branch' = "quit"
         /\ typed' = line
         /\ user_input' = Stripped[line]
    /\ exception' = ""
    /\ out' = <<Msg("bye")>>
    /\ running' = FALSE
    /\ NoCalls
    /\ UNCHANGED <<Session, chat_file, clock, tracked, calls, saved, switched>>

\* Clear, were the session built anew: chat = BedrockChat()
Clear_reinit ==
    /\ running
    /\ \E line \in Lines :
         /\ Branch[line] = "clear"
         /\ Iteration("clear", line, Stripped[line], "", <<Msg("cleared")>>)
    /\ LET chat == BedrockChat_init(R_default) IN
       /\ conversation_history' = chat.conversation_history
       /\ current_role' = chat.current_role
    /\ tracked' = TRUE
    /\ calls' = <<>>
    /\ NoCalls
    /\ UNCHANGED <<chat_file, clock, saved, switched>>

Clear ==
    /\ running
    /\ \E line \in Lines :
         /\ Branch[line] = "clear"
         /\ Iteration("clear", line, Stripped[line], "", <<Msg("cleared")>>)
    /\ conversation_history' = clear_history(conversation_history)
    /\ tracked' = TRUE
    /\ calls' = <<>>
    /\ NoCalls
    /\ UNCHANGED <<current_role, chat_file, clock, saved, switched>>

Save ==
    /\ running
    /\ \E line \in Lines, io \in SaveOutcomes :
         LET r == save_conversation(conversation_history, chat_file, io) IN
         /\ Branch[line] = "save"
         /\ chat_file' = r.file
         /\ Iteration("save", line, Stripped[line], r.raised,
                      IF r.raised = "" THEN <<Msg("saved")>> ELSE <<>>)
         /\ saved' = IF io = "ok"
                     THEN [valid |-> TRUE, hist |-> conversation_history]
                     ELSE IF io = "open_error" THEN saved
                     ELSE [valid |-> FALSE, hist |-> <<>>]
    /\ NoCalls
    /\ UNCHANGED <<Session, clock, tracked, calls, switched>>

Load ==
    /\ running
    /\ \E line \in Lines, io \in LoadOutcomes :
         LET r == load_conversation(conversation_history, chat_file, io)
             replaced == r.raised = "" /\ chat_file.exists
         IN /\ Branch[line] = "load"
            /\ conversation_history' = r.history
            /\ Iteration("load", line, Stripped[line], r.raised, r.printed)
            /\ tracked' = IF replaced THEN FALSE ELSE tracked
            /\ calls' = IF replaced THEN <<>> ELSE calls
    /\ NoCalls
    /\ UNCHANGED <<current_role, chat_file, clock, saved, switched>>

Role ==
    /\ running
    /\ \E line \in Lines, inp \in RoleInputs :
         LET r == RoleBranch(current_role, inp) IN
         /\ Branch[line] = "role"
         /\ current_role' = r.current_role
         /\ set_role_call' = r.call
         /\ Iteration("role", line, Stripped[line], r.raised, r.printed)
         /\ switched' = IF r.call.called /\ r.call.arg \in DOMAIN ROLE_PROMPTS
                        THEN r.call.arg ELSE switched
    /\ response' = NoResponse
    /\ request' = NoRequest
    /\ invoked' = 0
    /\ UNCHANGED <<conversation_history, chat_file, clock, tracked, calls, saved,
                   surplus>>

Empty ==
    /\ running
    /\ \E line \in Lines :
         /\ Branch[line] = "empty"
         /\ Iteration("empty", line, Stripped[line], "", <<>>)
    /\ NoCalls
    /\ UNCHANGED <<Session, chat_file, clock, tracked, calls, saved, switched>>

\* Everything that is not a command is sent to the model
Chat ==
    /\ running
    /\ \E line \in Lines, resp \in Responses :
         LET u == Stripped[line]
             r == get_response(conversation_history, current_role, clock, u, resp)
             interrupted == resp.status = "interrupt"
         IN /\ Branch[line] = "chat"
            /\ r.clock <= MaxClock
            /\ conversation_history' = r.history
            /\ clock' = r.clock
            /\ request' = r.request
            /\ response' = [called |-> TRUE, arg |-> u, ret |-> r.ret]
            /\ invoked' = r.issued
            /\ surplus' = surplus + r.issued - 1
            /\ Iteration("chat", line, u, r.raised,
                         r.printed \o (IF r.raised = "" THEN PrintResponse(r.ret)
                                       ELSE <<>>))
            /\ tracked' = (tracked /\ ~interrupted)
            /\ calls' = IF tracked /\ ~interrupted
                        THEN Append(calls, [input |-> u, ok |-> resp.status = "ok",
                                            text |-> resp.text])
                        ELSE <<>>
    /\ set_role_call' = NoSetRole
    /\ UNCHANGED <<current_role, chat_file, saved, switched>>

\* The program is run again: a new session beside the file the last one left
Restart ==
    /\ ~running
    /\ LET chat == BedrockChat_init(R_default) IN
       /\ conversation_history' = chat.conversation_history
       /\ current_role' = chat.current_role
    /\ Iteration("start", <<>>, <<>>, "", <<Msg("welcome")>>)
    /\ set_role_call' = NoSetRole
    /\ response' = NoResponse
    /\ request' = NoRequest
    /\ invoked' = 0
    /\ surplus' = 0
    /\ tracked' = TRUE
    /\ calls' = <<>>
    /\ switched' = R_default
    /\ UNCHANGED <<chat_file, clock, saved>>

Next ==
    \/ ReadEOF
    \/ ReadInterrupt
    \/ Help
    \/ HelpCommand
    \/ Quit
    \/ Clear
    \/ Save
    \/ Load
    \/ Role
    \/ Empty
    \/ Chat
    \/ Restart

Spec == Init /\ [][Next]_vars

(***************************************************************************)
(* Properties                                                              *)
(***************************************************************************)
\* The six role names of the specification
RegisteredRoles ==
    {R_default, R_translator, R_programmer, R_teacher, R_business_analyst, R_aws_sa}

TurnIs(t, role, content) ==
    /\ HasKey(t, K_role) /\ Get(t, K_role) = role
    /\ HasKey(t, K_content) /\ Get(t, K_content) = content

AllOk(cs) == \A i \in 1..Len(cs) : cs[i].ok

\* C1: from an empty history, after N get_response calls that all succeed
\* (whatever other commands came between them, load excepted) the history
\* has 2N turns, turn 2i-1 the user turn of the i-th input and turn 2i the
\* assistant turn of the i-th reply, and the last call returned its reply.
C1_SuccessfulTurnsAlternate ==
    (tracked /\ AllOk(calls)) =>
        /\ Len(conversation_history) = 2 * Len(calls)
        /\ \A i \in 1..Len(calls) :
             /\ TurnIs(conversation_history[2 * i - 1], USER, calls[i].input)
             /\ TurnIs(conversation_history[2 * i], ASSISTANT, calls[i].text)
        /\ (branch = "chat" => response.ret = PyStr(calls[Len(calls)].text))

C1_Witness ==
    /\ tracked /\ Len(calls) = 2 /\ AllOk(calls)
    /\ calls[1].text = <<>> /\ calls[2].text = <<"O","k">>
    /\ current_role = R_translator
    /\ branch = "chat"

\* C2: from an empty history, when the first k-1 calls succeed and the k-th
\* fails, the history has 2(k-1)+1 turns, the last one the user turn of call
\* k, and the call returned None.
C2_FailedCallKeepsUserTurn ==
    (/\ tracked /\ calls # <<>>
     /\ AllOk(SubSeq(calls, 1, Len(calls) - 1))
     /\ ~calls[Len(calls)].ok) =>
        LET k == Len(calls)
            h == conversation_history
        IN /\ Len(h) = 2 * (k - 1) + 1
           /\ TurnIs(h[Len(h)], USER, calls[k].input)
           /\ \A i \in 1..(k - 1) : TurnIs(h[2 * i], ASSISTANT, calls[i].text)
           /\ (branch = "chat" => response.called /\ response.ret = PyNone)

C2_Witness ==
    /\ tracked /\ Len(calls) = 2 /\ calls[1].ok /\ ~calls[2].ok
    /\ branch = "chat"
    /\ Len(conversation_history) = 3

\* C3: set_role(x) for an x outside the six role names leaves current_role
\* as it was and returns False, raising nothing; for one of the six it sets
\* current_role to x and returns True.
C3_SetRole ==
    [][set_role_call'.called =>
         /\ exception' = ""
         /\ running'
         /\ IF set_role_call'.arg \in RegisteredRoles
            THEN current_role' = set_role_call'.arg /\ set_role_call'.ret
            ELSE current_role' = current_role /\ ~set_role_call'.ret]_vars

C3_Witness ==
    /\ set_role_call.called /\ ~set_role_call.ret
    /\ set_role_call.arg = <<"T","r","a","n","s","l","a","t","o","r">>
    /\ current_role = R_translator

\* C4: current_role is always one of the registered role names, so no lookup
\* of its prompt raises KeyError: every get_response call issues its request
\* and the role display shows the prompt.
C4_RoleIsRegistered ==
    /\ current_role \in RegisteredRoles
    /\ exception # "KeyError"
    /\ (response.called => request.sent)
    /\ (branch = "role" => \E i \in 1..Len(out) : out[i].msg = "role_prompt")

C4_Witness ==
    /\ current_role = R_translator
    /\ response.called /\ request.sent
    /\ request.system = "prompt:translator"

\* C5: a load that reads the file gives the history the last save wrote,
\* turn for turn with every role, content and timestamp, in the same or in a
\* later session; and what json.dump writes of a history, json.load reads
\* back as that history.
C5_SaveLoadRoundTrip ==
    /\ (branch = "load" /\ exception = "" /\ chat_file.exists) =>
          /\ saved.valid
          /\ conversation_history = saved.hist
          /\ out = <<Msg("loaded")>>
    /\ (branch = "load" /\ saved.valid) => exception \in {"", "OSError"}
    /\ LET r == json_load(json_dump(conversation_history)) IN
       r.ok /\ r.val = conversation_history

C5_Witness ==
    /\ branch = "load" /\ out = <<Msg("loaded")>>
    /\ Len(conversation_history) = 3
    /\ Get(conversation_history[3], K_timestamp) = isoformat(3)
    /\ current_role = R_default /\ switched = R_default

\* C6: load with no file leaves the history, the role and the (absent) file
\* as they were, prints the not-found message, raises nothing, and the loop
\* goes on.
C6_LoadNotFound ==
    [][(branch' = "load" /\ ~chat_file.exists) =>
         /\ conversation_history' = conversation_history
         /\ current_role' = current_role
         /\ chat_file' = chat_file
         /\ out' = <<Msg("not_found")>>
         /\ exception' = ""
         /\ running']_vars

C6_Witness ==
    /\ branch = "load" /\ out = <<Msg("not_found")>>
    /\ Len(conversation_history) = 2
    /\ current_role = R_translator
    /\ running

UserMessage(text) == <<<<K_role, USER>>, <<K_content, text>>>>

\* C7: clear leaves the empty history, whatever it was; and the first
\* get_response call on a history emptied by clear (or empty from the start)
\* sends exactly one message, the new user text.
C7_Clear ==
    [][/\ (branch' = "clear" => conversation_history' = <<>>)
       /\ ((tracked /\ calls = <<>> /\ response'.called) =>
              /\ request'.sent
              /\ request'.messages = <<UserMessage(user_input')>>)]_vars

C7_Witness ==
    /\ branch = "chat" /\ tracked /\ Len(calls) = 1
    /\ Len(request.messages) = 1
    /\ clock = 4
    /\ Len(conversation_history) = 1

\* C8: the loop ends only by quit or by KeyboardInterrupt; every other
\* exception that reaches main() is reported and the loop goes on, and a
\* failure inside get_response is reported there and the loop goes on.
C8_LoopEndsOnlyByQuitOrInterrupt ==
    [][/\ (running /\ ~running') =>
             (branch' = "quit" \/ exception' = "KeyboardInterrupt")
       /\ exception' \notin {"", "KeyboardInterrupt"} =>
             (running' /\ out' # <<>> /\ out'[Len(out')] = Msg("exception"))
       /\ (response'.called /\ response'.ret = PyNone /\ exception' = "") =>
             (running' /\ out' = <<Msg("error"), Msg("sorry")>>)]_vars

C8_Witness ==
    /\ branch = "load" /\ exception = "JSONDecodeError"
    /\ running
    /\ Len(conversation_history) = 2

\* u is raw without its leading and trailing white space
IsTrimOf(u, raw) ==
    /\ (u # <<>> => ~IsSpace(u[1]) /\ ~IsSpace(u[Len(u)]))
    /\ \E i \in 0..Len(raw) :
         /\ i + Len(u) <= Len(raw)
         /\ SubSeq(raw, i + 1, i + Len(u)) = u
         /\ \A j \in (1..i) \cup ((i + Len(u) + 1)..Len(raw)) : IsSpace(raw[j])

IsCommandLine(u) ==
    LET l == Lower(u) IN
    \/ l \in {W_help, W_quit, W_clear, W_save, W_load, W_role}
    \/ StartsWith(l, W_help_)
    \/ u = <<>>

\* C9: of a line read at the main prompt the trimmed text is dispatched: a
\* command word, 'help ' with an argument, or the empty line appends no turn
\* and issues no request; any other line is sent to get_response as typed
\* (trimmed, case kept), which appends the user turn holding it.
C9_Dispatch ==
    [][branch' \notin {"start", "eof", "interrupt"} =>
         /\ IsTrimOf(user_input', typed')
         /\ IF IsCommandLine(user_input')
            THEN /\ ~response'.called /\ ~request'.sent
                 /\ clock' = clock
                 /\ \/ conversation_history' = conversation_history
                    \/ branch' = "clear" /\ conversation_history' = <<>>
                    \/ branch' = "load" /\ conversation_history' = saved.hist
            ELSE LET h == conversation_history IN
                 /\ response'.called /\ response'.arg = user_input'
                 /\ Len(conversation_history') > Len(h)
                 /\ SubSeq(conversation_history', 1, Len(h)) = h
                 /\ TurnIs(conversation_history'[Len(h) + 1], USER, user_input')]_vars

C9_Witness ==
    /\ branch = "chat"
    /\ typed = <<" ","R","o","l","e"," ","t"," ">>
    /\ user_input = <<"R","o","l","e"," ","t">>
    /\ response.ret = PyNone
    /\ TurnIs(conversation_history[Len(conversation_history)], USER, user_input)

Projection(t) == <<<<K_role, Get(t, K_role)>>, <<K_content, Get(t, K_content)>>>>

\* C10: the request of a get_response call carries the {role, content} pairs
\* of the whole history as it stood once the user turn was appended, in
\* order and without timestamps, the new user text last; its system prompt is
\* that of the role last switched to, or of default.
C10_Request ==
    request.sent =>
        LET n == Len(request.messages)
            h == conversation_history
        IN /\ response.called
           /\ n >= 1
           /\ n = Len(h) - (IF response.ret.t = "str" THEN 1 ELSE 0)
           /\ \A i \in 1..n : request.messages[i] = Projection(h[i])
           /\ request.messages[n] = UserMessage(response.arg)
           /\ request.system = ROLE_PROMPTS[switched]

C10_Witness ==
    /\ request.sent /\ Len(request.messages) = 2
    /\ request.messages[1] = UserMessage(<<"R","o","l","e"," ","t">>)
    /\ request.messages[2] = UserMessage(<<"R","o","l","e"," ","t">>)
    /\ request.system = "prompt:translator"
    /\ response.ret = PyStr(<<"O","k">>)

\* C11: every get_response call issues exactly one invoke_model request,
\* whether it succeeds or fails, and no other step of the loop issues any; so
\* the requests of a session are as many as its get_response calls.
C11_OneRequestPerCall ==
    /\ response.called => request.sent /\ invoked = 1
    /\ ~response.called => ~request.sent /\ invoked = 0
    /\ surplus = 0

C11_Witness ==
    /\ tracked /\ Len(calls) = 2
    /\ calls[1].ok /\ ~calls[2].ok
    /\ response.called /\ response.ret = PyNone
    /\ invoked = 1 /\ surplus = 0

IsPrefix(a, b) == Len(a) <= Len(b) /\ SubSeq(b, 1, Len(a)) = a

\* C12: outside clear and load the history only grows at its end: a chat
\* iteration leaves the turns there were as a proper prefix of the history,
\* each with its role, content and timestamp, also when the same text is
\* sent again; role and save iterations leave the history as it is; and a
\* step of the session after which the old history is no prefix of the new
\* one is a clear or a load that read the file.
C12_AppendOnly ==
    [][/\ branch' = "chat" =>
            /\ IsPrefix(conversation_history, conversation_history')
            /\ Len(conversation_history') > Len(conversation_history)
       /\ branch' \in {"role", "save"} =>
            conversation_history' = conversation_history
       /\ (branch' # "start"
             /\ ~IsPrefix(conversation_history, conversation_history')) =>
            \/ branch' = "clear"
            \/ branch' = "load" /\ chat_file.exists /\ exception' = ""]_vars

C12_Witness ==
    LET h == conversation_history
        t == <<"R","o","l","e"," ","t">>
    IN /\ branch = "chat" /\ Len(h) = 3
       /\ TurnIs(h[1], USER, t) /\ Get(h[1], K_timestamp) = isoformat(1)
       /\ Get(h[2], K_role) = ASSISTANT
       /\ TurnIs(h[3], USER, t) /\ Get(h[3], K_timestamp) = isoformat(3)

RoleOf(t) == Get(t, K_role)

\* The history is empty or starts with a user turn, every assistant turn
\* comes right after a user turn, and no two assistant turns are adjacent
WellPaired(h) ==
    /\ \A i \in 1..Len(h) : RoleOf(h[i]) \in {USER, ASSISTANT}
    /\ h # <<>> => RoleOf(h[1]) = USER
    /\ \A i \in 1..Len(h) :
         RoleOf(h[i]) = ASSISTANT => i > 1 /\ RoleOf(h[i - 1]) = USER
    /\ \A i \in 1..(Len(h) - 1) :
         ~(RoleOf(h[i]) = ASSISTANT /\ RoleOf(h[i + 1]) = ASSISTANT)

\* Where the i-th of the calls cs put its user turn in a history that was
\* empty before them
RECURSIVE UserTurnOf(_, _)
UserTurnOf(cs, i) ==
    IF i = 1 THEN 1
    ELSE UserTurnOf(cs, i - 1) + (IF cs[i - 1].ok THEN 2 ELSE 1)

\* Two user turns are adjacent only where the call of the earlier one failed
AdjacentOnlyAfterFailure(h, cs) ==
    \A p \in 1..(Len(h) - 1) :
        (RoleOf(h[p]) = USER /\ RoleOf(h[p + 1]) = USER) =>
            \E i \in 1..Len(cs) : UserTurnOf(cs, i) = p /\ ~cs[i].ok

\* C13: in a session that has loaded nothing, after every step the history
\* is empty or starts with a user turn, every assistant turn comes right
\* after a user turn, no two assistant turns are adjacent, and two user
\* turns are adjacent only where the inference call of the earlier one
\* failed; a call cut short by an interrupt adds its user turn after a user
\* turn only when the call of that earlier turn failed.
C13_TurnOrder ==
    [][(tracked /\ ~(branch' = "load" /\ chat_file.exists /\ exception' = "")) =>
         LET h == conversation_history IN
         /\ WellPaired(conversation_history')
         /\ tracked' => AdjacentOnlyAfterFailure(conversation_history', calls')
         /\ (~tracked' /\ h # <<>> /\ RoleOf(h[Len(h)]) = USER) =>
                /\ response'.called /\ exception' = "KeyboardInterrupt"
                /\ Len(conversation_history') = Len(h) + 1
                /\ calls # <<>> /\ ~calls[Len(calls)].ok]_vars

C13_Witness ==
    LET h == conversation_history IN
    /\ tracked /\ Len(calls) = 2 /\ ~calls[1].ok /\ calls[2].ok
    /\ Len(h) = 3
    /\ RoleOf(h[1]) = USER /\ RoleOf(h[2]) = USER /\ RoleOf(h[3]) = ASSISTANT

Printed(m) == \E i \in 1..Len(out) : out[i] = m

\* C14: after every chat iteration that ran to its end, the shell has
\* printed the turn-failed message exactly when get_response appended no
\* assistant turn, and has printed the reply exactly when an assistant turn
\* holding that reply was appended, whatever text the endpoint returned, the
\* empty text included.
C14_ShellReportsTurn ==
    (branch = "chat" /\ exception = "") =>
        LET h == conversation_history
            last == h[Len(h)]
            appended == RoleOf(last) = ASSISTANT
        IN /\ Printed(Msg("sorry")) <=> ~appended
           /\ \A a \in Replies :
                Printed(MsgOf("reply", a)) <=>
                    (appended /\ Get(last, K_content) = a)

\* C15: a role iteration, whether set_role accepts the name or not, leaves
\* the history as it was; a chat iteration, whether the call succeeds or
\* fails, and a clear, save or load iteration, whether the file is there or
\* not, leave current_role as it was.
C15_Frame ==
    [][/\ branch' = "role" => conversation_history' = conversation_history
       /\ branch' \in {"chat", "clear", "save", "load"} =>
            current_role' = current_role]_vars

C15_Witness ==
    /\ branch = "role"
    /\ set_role_call.called /\ ~set_role_call.ret
    /\ current_role = R_translator
    /\ Len(conversation_history) = 3

\* C16: chat_history.json changes in save iterations only, never in a chat,
\* clear, role, load or quit iteration, at an interrupt or when the program
\* is started again; a save that raised nothing leaves in it the text of the
\* whole history of that moment; and a load that reads the file makes the
\* history what it was at the last such save, whatever was appended or
\* cleared since.
C16_FileOnlyBySave ==
    [][/\ chat_file' # chat_file => branch' = "save"
       /\ (branch' = "save" /\ exception' = "") =>
            /\ conversation_history' = conversation_history
            /\ chat_file'.exists
            /\ json_load(chat_file'.text).ok
            /\ json_load(chat_file'.text).val = conversation_history
       /\ (branch' = "load" /\ exception' = "" /\ chat_file.exists) =>
            /\ saved.valid
            /\ conversation_history' = saved.hist
            /\ json_load(chat_file.text).val = saved.hist]_vars

C16_Witness ==
    LET h == conversation_history IN
    /\ branch = "load" /\ out = <<Msg("loaded")>>
    /\ Len(h) = 2
    /\ Get(h[2], K_timestamp) = isoformat(2)
    /\ clock = 4
    /\ saved.valid /\ saved.hist = h

====
